---- MODULE Spec2Model ----
(***************************************************************************)
(* AQL query execution of arangors' Database (src/src/database.rs):        *)
(* aql_query_batch (submit), aql_next_batch (advance), aql_fetch_all and    *)
(* aql_query (run to completion), run by several caller tasks that share    *)
(* one Database context and one session, against a server that answers     *)
(* each request as it likes (pages, failure envelopes, garbage, transport   *)
(* failures).                                                              *)
(***************************************************************************)
EXTENDS Integers, Sequences, FiniteSets, TLC

\* ------------------------------------------------------------ bounds
NumTasks == 2
MaxCalls == 2
MaxPages == 3
MaxPageLen == 2

Tasks == 1..NumTasks

\* ------------------------------------------------------------ values
\* Option::None of Cursor.id
NoId == "none"
\* the continuation ids the server hands out, in order of issue
CursorIdNames ==
  <<"c1", "c2", "c3", "c4", "c5", "c6", "c7", "c8", "c9", "c10",
    "c11", "c12", "c13", "c14", "c15", "c16", "c17", "c18", "c19", "c20">>
\* an id the server never issued (an expired or unknown cursor)
StaleId == "stale"

\* the result type R the caller asks for; the items the server sends are JSON
\* objects: a Value takes any item, an i32 only a JSON integer
ResultTypes == {"Value", "i32"}
Fits(R, item) == R = "Value"

\* the query of examples/aql.rs
ExampleQuery == [query |-> "FOR u IN test_collection LIMIT 3 RETURN u", bind_vars |-> <<>>]
Queries == {ExampleQuery}

Ok(v) == [tag |-> "Ok", val |-> v]
Err(e) == [tag |-> "Err", err |-> e]
Panic == [tag |-> "Panic"]
NoOutcome == [tag |-> "None"]

\* ------------------------------------------------------------ addresses
\* A Url is a host and the segments of its path; a path that ends in '/'
\* ends in the empty segment.
ConnUrl == [host |-> "localhost:8529", path |-> <<"">>]

\* Url::join with a relative path: the last segment of the base is replaced
UrlJoin(base, rel) ==
  [base EXCEPT !.path = SubSeq(base.path, 1, Len(base.path) - 1) \o rel]

\* Database::new: conn.get_url().join("/_db/{name}/")
DatabaseNew(name) ==
  [name |-> name,
   base_url |-> [ConnUrl EXCEPT !.path = <<"_db", name, "">>],
   session |-> "session"]

\* a join with "/_api/cursor": an absolute path replaces the path of the base
CursorUrlAbsolute(d) == [d.base_url EXCEPT !.path = <<"_api", "cursor">>]

CursorUrl(d) == UrlJoin(d.base_url, <<"_api", "cursor">>)
NextBatchUrl(d, cursor_id) == UrlJoin(d.base_url, <<"_api", "cursor", cursor_id>>)

\* serde_json::to_string(&aql)
ToJson(aql) == [query |-> aql.query, bindVars |-> aql.bind_vars]

PostRequest(d, aql) == [method |-> "POST", url |-> CursorUrl(d), body |-> ToJson(aql)]
PutRequest(d, cursor_id) == [method |-> "PUT", url |-> NextBatchUrl(d, cursor_id), body |-> ""]

\* ------------------------------------------------------------ decoding
\* Bodies on the wire:
\*   [json |-> FALSE]                                        not JSON
\*   [json |-> TRUE, error |-> TRUE, code, errorNum]         failure envelope
\*   [json |-> TRUE, error |-> FALSE, result, hasMore, id]
TransportError == [kind |-> "TransportError"]
MalformedResponse == [kind |-> "MalformedResponse"]
SchemaMismatch == [kind |-> "SchemaMismatch"]
ServerError(code, errorNum) == [kind |-> "ServerError", code |-> code, errorNum |-> errorNum]
IsInvalidCursor(e) == e.kind = "ServerError" /\ e.code = 404

\* a decoder that takes the derived defaults: a missing id is None whatever
\* hasMore says
serialize_query_response_lenient(R, text) ==
  IF ~text.json THEN Err(MalformedResponse)
  ELSE IF text.error THEN Err(ServerError(text.code, text.errorNum))
  ELSE IF \E i \in 1..Len(text.result) : ~Fits(R, text.result[i]) THEN Err(SchemaMismatch)
  ELSE Ok([result |-> text.result, more |-> text.hasMore, id |-> text.id])

\* a decoder that decodes the payload as Cursor<R> without looking at the
\* error discriminant: a failure envelope has no `result`
serialize_query_response_payload_first(R, text) ==
  IF ~text.json THEN Err(MalformedResponse)
  ELSE IF text.error THEN Err(SchemaMismatch)
  ELSE IF \E i \in 1..Len(text.result) : ~Fits(R, text.result[i]) THEN Err(SchemaMismatch)
  ELSE IF text.hasMore /\ text.id = NoId THEN Err(SchemaMismatch)
  ELSE Ok([result |-> text.result, more |-> text.hasMore, id |-> text.id])

\* the decoder of section 4.1: the error discriminant is looked at before the
\* payload is decoded as Cursor<R>
serialize_query_response(R, text) ==
  IF ~text.json THEN Err(MalformedResponse)
  ELSE IF text.error THEN Err(ServerError(text.code, text.errorNum))
  ELSE IF \E i \in 1..Len(text.result) : ~Fits(R, text.result[i]) THEN Err(SchemaMismatch)
  ELSE IF text.hasMore /\ text.id = NoId THEN Err(SchemaMismatch)
  ELSE Ok([result |-> text.result, more |-> text.hasMore, id |-> text.id])

\* `self.session.post(..).await?` / `put(..).await?` followed by the decoder:
\* what aql_query_batch and aql_next_batch return for a response
BatchResult(R, resp) ==
  IF ~resp.delivered THEN Err(TransportError)
  ELSE serialize_query_response(R, resp.text)

\* ------------------------------------------------------------ state
VARIABLES
  db,        \* the Database context shared by every task
  pc,        \* per task: "idle", "submit", "fetch", "batch", "next", "ret"
  kind,      \* per task: the operation of the current (or last) call
  ty,        \* per task: its result type R
  results,   \* per task: the local `results` of aql_fetch_all
  outcome,   \* per task: what the last call returned
  sent,      \* per task: the requests the current call issued, in order
  log,       \* per task: the responses the current call observed, in order
  net,       \* requests in flight
  inbox,     \* responses in flight
  ncalls,    \* calls made so far
  arg,       \* per task: the argument of the current (or last) call
  colls,     \* server: the collections in listing order, and how many it made
  nextRs,    \* server: number of the next result set
  nextId,    \* server: index of the next continuation id
  cursors    \* server: the open cursors

vars == <<db, pc, kind, ty, results, outcome, sent, log, net, inbox, ncalls,
          arg, colls, nextRs, nextId, cursors>>
serverVars == <<nextRs, nextId, cursors>>

Init ==
  /\ db = DatabaseNew("test_db")
  /\ pc = [t \in Tasks |-> "idle"]
  /\ kind = [t \in Tasks |-> "none"]
  /\ ty = [t \in Tasks |-> "Value"]
  /\ results = [t \in Tasks |-> <<>>]
  /\ outcome = [t \in Tasks |-> NoOutcome]
  /\ sent = [t \in Tasks |-> <<>>]
  /\ log = [t \in Tasks |-> <<>>]
  /\ net = {}
  /\ inbox = {}
  /\ ncalls = 0
  /\ arg = [t \in Tasks |-> "none"]
  /\ colls = [list |-> <<>>, made |-> 0]
  /\ nextRs = 1
  /\ nextId = 1
  /\ cursors = {}

\* ------------------------------------------------------------ the client
\* a session that hands every request to the transport twice
TransmitTwice(t, seq, req) ==
  {[from |-> t, seq |-> seq, n |-> i, req |-> req] : i \in 1..2}

\* session.post / session.put: one request handed to the transport
Transmit(t, seq, req) == {[from |-> t, seq |-> seq, n |-> 1, req |-> req]}

\* an accumulator that outlives the call
VecKept(t) == results[t]

\* Vec::new() of aql_fetch_all
VecNew(t) == <<>>

\* the id the server issued last, whichever run it was issued to
RedeemLatestId(cursor) == CursorIdNames[nextId - 1]

\* the continuation id aql_fetch_all redeems: the one of the cursor it holds
RedeemId(cursor) == cursor.id

\* a loop that goes on while pages have items, not while has_more is set
aql_fetch_all_while_items(cursor, acc) ==
  IF Len(cursor.result) > 0
  THEN IF cursor.id = NoId
       THEN [step |-> "panic"]
       ELSE [step |-> "put", id |-> RedeemId(cursor), results |-> acc \o cursor.result]
  ELSE [step |-> "return", results |-> acc, outcome |-> Ok(acc)]

\* aql_fetch_all from the head of its loop, up to the next await or return
aql_fetch_all(cursor, acc) ==
  IF cursor.more
  THEN IF cursor.id = NoId
       THEN [step |-> "panic"]
       ELSE [step |-> "put", id |-> RedeemId(cursor), results |-> acc \o cursor.result]
  ELSE [step |-> "return", results |-> acc, outcome |-> Ok(acc)]

\* an aql_query that hands every first page to aql_fetch_all
AqlQueryAlwaysFetchAll(t, response) == aql_fetch_all(response, VecNew(t))

\* aql_query after aql_query_batch returned Ok(response)
AqlQueryBranch(t, response) ==
  IF response.more
  THEN aql_fetch_all(response, VecNew(t))
  ELSE [step |-> "return", results |-> results[t], outcome |-> Ok(response.result)]

\* a failed PUT is issued again instead of being returned
RetryLast(t, e) ==
  IF pc[t] = "fetch"
  THEN [step |-> "put", id |-> sent[t][Len(sent[t])].url.path[Len(sent[t][Len(sent[t])].url.path)],
        results |-> results[t]]
  ELSE [step |-> "return", results |-> results[t], outcome |-> e]

\* `?`: an Err is returned to the caller as it is
Propagate(t, e) == [step |-> "return", results |-> results[t], outcome |-> e]

\* an await that matches responses against the number of the next request
AwaitedNext(t) == {m \in inbox : m.to = t /\ m.seq = Len(sent[t]) + 1}

\* `.await`: the response to the request the task issued last
Awaited(t) == {m \in inbox : m.to = t /\ m.seq = Len(sent[t])}

\* the task takes the step `s` computed from the response it received
Continue(t, m, s) ==
  /\ inbox' = inbox \ {m}
  /\ log' = [log EXCEPT ![t] = Append(@, m.resp)]
  /\ IF s.step = "put"
     THEN /\ pc' = [pc EXCEPT ![t] = "fetch"]
          /\ results' = [results EXCEPT ![t] = s.results]
          /\ sent' = [sent EXCEPT ![t] = Append(@, PutRequest(db, s.id))]
          /\ net' = net \cup Transmit(t, Len(sent[t]) + 1, PutRequest(db, s.id))
          /\ UNCHANGED outcome
     ELSE /\ pc' = [pc EXCEPT ![t] = "ret"]
          /\ results' = [results EXCEPT ![t] = IF s.step = "panic" THEN @ ELSE s.results]
          /\ outcome' = [outcome EXCEPT ![t] = IF s.step = "panic" THEN Panic ELSE s.outcome]
          /\ UNCHANGED <<sent, net>>
  /\ UNCHANGED <<db, kind, ty, ncalls, arg, colls, serverVars>>

\* a caller starts an operation that begins with the request `req`
Start(t, op, R, req, at) ==
  /\ pc[t] \in {"idle", "ret"}
  /\ ncalls < MaxCalls
  /\ ncalls' = ncalls + 1
  /\ pc' = [pc EXCEPT ![t] = at]
  /\ kind' = [kind EXCEPT ![t] = op]
  /\ ty' = [ty EXCEPT ![t] = R]
  /\ sent' = [sent EXCEPT ![t] = <<req>>]
  /\ log' = [log EXCEPT ![t] = <<>>]
  /\ net' = net \cup Transmit(t, 1, req)
  /\ UNCHANGED <<db, results, outcome, inbox, colls, serverVars>>

\* aql_query up to the await of aql_query_batch
aql_query(t) ==
  \E R \in ResultTypes, aql \in Queries :
    /\ Start(t, "aql_query", R, PostRequest(db, aql), "submit")
    /\ arg' = [arg EXCEPT ![t] = aql]

\* aql_query from the response of the POST on
aql_query_submitted(t) ==
  /\ pc[t] = "submit"
  /\ \E m \in Awaited(t) :
       LET response == BatchResult(ty[t], m.resp) IN
       Continue(t, m, IF response.tag = "Ok"
                      THEN AqlQueryBranch(t, response.val)
                      ELSE Propagate(t, response))

\* an aql_fetch_all that takes the id once, before its loop, from the first page
aql_fetch_all_next_first_id(t) ==
  /\ pc[t] = "fetch"
  /\ \E m \in Awaited(t) :
       LET response_cursor == BatchResult(ty[t], m.resp) IN
       Continue(t, m, IF response_cursor.tag = "Ok"
                      THEN aql_fetch_all([response_cursor.val EXCEPT !.id = log[t][1].text.id],
                                         results[t])
                      ELSE Propagate(t, response_cursor))

\* aql_fetch_all from the response of a PUT on
aql_fetch_all_next(t) ==
  /\ pc[t] = "fetch"
  /\ \E m \in Awaited(t) :
       LET response_cursor == BatchResult(ty[t], m.resp) IN
       Continue(t, m, IF response_cursor.tag = "Ok"
                      THEN aql_fetch_all(response_cursor.val, results[t])
                      ELSE Propagate(t, response_cursor))

\* aql_query_batch called by the caller itself
aql_query_batch(t) ==
  \E R \in ResultTypes, aql \in Queries :
    /\ Start(t, "aql_query_batch", R, PostRequest(db, aql), "batch")
    /\ arg' = [arg EXCEPT ![t] = aql]

\* the ids a caller of aql_next_batch holds: the one of the cursor its last
\* call returned, or a stale one
HeldIds(t) ==
  {StaleId} \cup
  (IF outcome[t].tag = "Ok" /\ kind[t] \in {"aql_query_batch", "aql_next_batch"}
      /\ outcome[t].val.id # NoId
   THEN {outcome[t].val.id} ELSE {})

aql_next_batch(t) ==
  /\ pc[t] \in {"idle", "ret"}
  /\ \E R \in ResultTypes, cursor_id \in HeldIds(t) :
       /\ Start(t, "aql_next_batch", R, PutRequest(db, cursor_id), "next")
       /\ arg' = [arg EXCEPT ![t] = cursor_id]

\* aql_query_batch / aql_next_batch return what the decoder made of the response
batch_return(t) ==
  /\ pc[t] \in {"batch", "next"}
  /\ \E m \in Awaited(t) :
       Continue(t, m, [step |-> "return", results |-> results[t],
                       outcome |-> BatchResult(ty[t], m.resp)])

\* ------------------------------------------------------------ the server
Items(rs, from, n) == [i \in 1..n |-> [rs |-> rs, n |-> from + i]]

Respond(m, resp) ==
  /\ net' = net \ {m}
  /\ inbox' = inbox \cup {[to |-> m.from, seq |-> m.seq, n |-> m.n, resp |-> resp]}
  /\ UNCHANGED <<db, pc, kind, ty, results, outcome, sent, log, ncalls, arg, colls>>

Delivered(text) == [delivered |-> TRUE, text |-> text]

\* the request never gets an answer: the transport reports an error
TransportFails ==
  \E m \in net :
    /\ Respond(m, [delivered |-> FALSE])
    /\ UNCHANGED serverVars

\* the answer is not JSON
ServerGarbage ==
  \E m \in net :
    /\ Respond(m, Delivered([json |-> FALSE]))
    /\ UNCHANGED serverVars

IsCursorPath(url) ==
  /\ Len(url.path) = Len(db.base_url.path) + 2
  /\ SubSeq(url.path, 1, Len(url.path) - 1) = CursorUrl(db).path
RequestedId(url) == url.path[Len(url.path)]

\* a failure envelope: the query is rejected, or the cursor is unknown or expired
ServerFailure ==
  \E m \in net :
    /\ Respond(m, Delivered(
         IF m.req.method = "POST"
         THEN [json |-> TRUE, error |-> TRUE, code |-> 400, errorNum |-> 1501]
         ELSE [json |-> TRUE, error |-> TRUE, code |-> 404, errorNum |-> 1600]))
    /\ cursors' = IF m.req.method = "PUT" /\ IsCursorPath(m.req.url)
                  THEN {c \in cursors : c.id # RequestedId(m.req.url)}
                  ELSE cursors
    /\ UNCHANGED <<nextRs, nextId>>

\* a page of `n` items of result set `rs` that follow its first `pos` items;
\* `more` with `withId` opens the cursor of the next page
Page(m, rs, pos, page, n, more, withId, closed) ==
  LET id == IF more /\ withId THEN CursorIdNames[nextId] ELSE NoId IN
  /\ Respond(m, Delivered([json |-> TRUE, error |-> FALSE,
                           result |-> Items(rs, pos, n),
                           hasMore |-> more, id |-> id]))
  /\ cursors' = (cursors \ closed) \cup
                (IF id = NoId THEN {}
                 ELSE {[id |-> id, rs |-> rs, pos |-> pos + n, page |-> page]})
  /\ nextId' = IF id = NoId THEN nextId ELSE nextId + 1

\* the first page of a new result set
ServerFirstPage ==
  \E m \in net :
    /\ m.req.method = "POST"
    /\ m.req.url = CursorUrl(db)
    /\ \E n \in 0..MaxPageLen, more \in BOOLEAN, withId \in BOOLEAN :
         /\ more => MaxPages > 1 /\ nextId <= Len(CursorIdNames)
         /\ ~more => withId
         /\ Page(m, nextRs, 0, 1, n, more, withId, {})
    /\ nextRs' = nextRs + 1

\* the page a continuation id stands for; the id is used up
ServerNextPage ==
  \E m \in net :
    /\ m.req.method = "PUT"
    /\ IsCursorPath(m.req.url)
    /\ \E c \in cursors :
         /\ c.id = RequestedId(m.req.url)
         /\ \E n \in 0..MaxPageLen, more \in BOOLEAN, withId \in BOOLEAN :
              /\ more => c.page + 1 < MaxPages /\ nextId <= Len(CursorIdNames)
              /\ ~more => withId
              /\ Page(m, c.rs, c.pos, c.page + 1, n, more, withId, {c})
    /\ UNCHANGED nextRs

\* a PUT for an id that is not open
ServerUnknownCursor ==
  \E m \in net :
    /\ m.req.method = "PUT"
    /\ ~(IsCursorPath(m.req.url) /\ \E c \in cursors : c.id = RequestedId(m.req.url))
    /\ Respond(m, Delivered([json |-> TRUE, error |-> TRUE, code |-> 404, errorNum |-> 1600]))
    /\ UNCHANGED serverVars

Next ==
  \/ \E t \in Tasks : aql_query(t)
  \/ \E t \in Tasks : aql_query_submitted(t)
  \/ \E t \in Tasks : aql_fetch_all_next(t)
  \/ \E t \in Tasks : aql_query_batch(t)
  \/ \E t \in Tasks : aql_next_batch(t)
  \/ \E t \in Tasks : batch_return(t)
  \/ TransportFails
  \/ ServerGarbage
  \/ ServerFailure
  \/ ServerFirstPage
  \/ ServerNextPage
  \/ ServerUnknownCursor

Spec == Init /\ [][Next]_vars

\* the transport answers the request of task t, one way or the other
Answered(t) ==
  /\ \/ TransportFails
     \/ ServerGarbage
     \/ ServerFailure
     \/ ServerFirstPage
     \/ ServerNextPage
     \/ ServerUnknownCursor
  /\ \E m \in net : m.from = t /\ m \notin net'

\* every request gets a response in the end, and a task whose response has
\* come is resumed in the end
Fairness ==
  \A t \in Tasks :
    /\ WF_vars(Answered(t))
    /\ WF_vars(aql_query_submitted(t))
    /\ WF_vars(aql_fetch_all_next(t))

\* the runs of aql_query alone, made one after the other by the first task
NextLive ==
  \/ \E t \in {1} : aql_query(t)
  \/ \E t \in Tasks : aql_query_submitted(t)
  \/ \E t \in Tasks : aql_fetch_all_next(t)
  \/ TransportFails
  \/ ServerGarbage
  \/ ServerFailure
  \/ ServerFirstPage
  \/ ServerNextPage

SpecLive == Init /\ [][NextLive]_vars /\ Fairness

\* ------------------------------------------------------------ observations
InFlight(t) ==
  Cardinality({m \in net : m.from = t}) + Cardinality({m \in inbox : m.to = t})

\* what the k-th response of task t's call decodes to
Decoded(t, k) == BatchResult(ty[t], log[t][k])

\* the server answered the call of task t with a whole chain of N >= 1 pages:
\* has_more with an id on pages 1..N-1, no has_more on page N
ServedChain(t) ==
  /\ Len(log[t]) >= 1
  /\ \A k \in 1..Len(log[t]) :
       /\ Decoded(t, k).tag = "Ok"
       /\ Decoded(t, k).val.more <=> k < Len(log[t])

RECURSIVE ConcatPages(_, _)
\* the items of the first k responses of a chain, in page order
ConcatPages(l, k) ==
  IF k = 0 THEN <<>> ELSE ConcatPages(l, k - 1) \o l[k].text.result

Returned(t, op) == pc[t] = "ret" /\ kind[t] = op

\* C1: an aql_query whose server answered with N pages returns the items of
\* all N pages, the last page included, in page order and within-page order.
C1_AllPagesReturned ==
  \A t \in Tasks :
    Returned(t, "aql_query") /\ ServedChain(t)
      => outcome[t] = Ok(ConcatPages(log[t], Len(log[t])))

\* C2: an aql_query whose last request failed returns that error, and the
\* outcome of every run is the complete result set or an error, never a
\* truncated sequence.
C2_CompleteOrError ==
  \A t \in Tasks :
    Returned(t, "aql_query") =>
      /\ Decoded(t, Len(log[t])).tag = "Err" => outcome[t].tag = "Err"
      /\ outcome[t].tag = "Err"
         \/ (ServedChain(t) /\ outcome[t] = Ok(ConcatPages(log[t], Len(log[t]))))

\* C3: when submit returns a first page without has_more, aql_query has issued
\* the POST and nothing else, and returns exactly the items of that page.
C3_SinglePage ==
  \A t \in Tasks :
    (/\ kind[t] = "aql_query"
     /\ Len(log[t]) >= 1
     /\ Decoded(t, 1).tag = "Ok"
     /\ ~Decoded(t, 1).val.more)
      => /\ pc[t] = "ret"
         /\ Len(log[t]) = 1
         /\ Len(sent[t]) = 1
         /\ sent[t][1].method = "POST"
         /\ InFlight(t) = 0
         /\ outcome[t] = Ok(log[t][1].text.result)

C3_Witness ==
  \E t \in Tasks :
    /\ Returned(t, "aql_query")
    /\ Len(log[t]) = 1
    /\ Decoded(t, 1).tag = "Ok"
    /\ ~Decoded(t, 1).val.more
    /\ Len(outcome[t].val) = MaxPageLen

\* C4: a successful aql_query over N pages has issued N requests, one POST and
\* then N-1 PUTs, each page's continuation id redeemed by exactly one of them;
\* once a page without has_more is received no request follows.
C4_RequestCount ==
  \A t \in Tasks :
    kind[t] = "aql_query" =>
      /\ \A k \in 1..Len(log[t]) :
           Decoded(t, k).tag = "Ok" /\ ~Decoded(t, k).val.more
             => k = Len(log[t]) /\ Len(sent[t]) = k /\ InFlight(t) = 0
      /\ pc[t] = "ret" /\ outcome[t].tag = "Ok" =>
           /\ ServedChain(t)
           /\ Len(sent[t]) = Len(log[t])
           /\ InFlight(t) = 0
           /\ sent[t][1].method = "POST"
           /\ \A k \in 2..Len(sent[t]) : sent[t][k].method = "PUT"
           /\ \A j \in 1..(Len(log[t]) - 1) :
                Cardinality({k \in 1..Len(sent[t]) :
                               /\ sent[t][k].method = "PUT"
                               /\ IsCursorPath(sent[t][k].url)
                               /\ RequestedId(sent[t][k].url) = log[t][j].text.id}) = 1

C4_Witness ==
  \E t \in Tasks :
    /\ Returned(t, "aql_query")
    /\ outcome[t].tag = "Ok"
    /\ Len(log[t]) = MaxPages
    /\ Len(sent[t]) = MaxPages

IsSuccessEnvelope(resp) == resp.delivered /\ resp.text.json /\ ~resp.text.error
IsFailureEnvelope(resp) == resp.delivered /\ resp.text.json /\ resp.text.error

\* C5: a success envelope with has_more and no id is never taken as a page: the
\* call that receives it returns an Err and issues nothing more, and every
\* cursor that is decoded with has_more carries an id.
C5_MoreImpliesId ==
  \A t \in Tasks : \A k \in 1..Len(log[t]) :
    /\ Decoded(t, k).tag = "Ok" /\ Decoded(t, k).val.more => Decoded(t, k).val.id # NoId
    /\ (/\ IsSuccessEnvelope(log[t][k])
        /\ log[t][k].text.hasMore
        /\ log[t][k].text.id = NoId)
         => /\ k = Len(log[t])
            /\ pc[t] = "ret"
            /\ outcome[t].tag = "Err"
            /\ Len(sent[t]) = k
            /\ InFlight(t) = 0

C5_Witness ==
  \E t \in Tasks :
    /\ Returned(t, "aql_query")
    /\ ty[t] = "Value"
    /\ Len(log[t]) = 2
    /\ IsSuccessEnvelope(log[t][2])
    /\ log[t][2].text.hasMore
    /\ log[t][2].text.id = NoId
    /\ outcome[t].tag = "Err"

\* C6: a call has at most one request outstanding, and it has issued request
\* k+1 only after it observed the response to request k.
C6_Sequential ==
  \A t \in Tasks :
    /\ InFlight(t) <= 1
    /\ Len(sent[t]) - Len(log[t]) = InFlight(t)
    /\ InFlight(t) = 1 <=> pc[t] \in {"submit", "fetch", "batch", "next"}

C6_Witness ==
  \E t \in Tasks :
    /\ kind[t] = "aql_query"
    /\ pc[t] = "fetch"
    /\ Len(sent[t]) = MaxPages
    /\ Len(log[t]) = MaxPages - 1
    /\ InFlight(t) = 1

\* C7: a response that makes submit or advance fail is the last one of its
\* call: no request follows it, and the call returns that very error.
C7_NoRetry ==
  \A t \in Tasks : \A k \in 1..Len(log[t]) :
    Decoded(t, k).tag = "Err"
      => /\ k = Len(log[t])
         /\ Len(sent[t]) = k
         /\ InFlight(t) = 0
         /\ pc[t] = "ret"
         /\ outcome[t] = Decoded(t, k)

C7_Witness ==
  \E t \in Tasks :
    /\ Returned(t, "aql_query")
    /\ Len(log[t]) = MaxPages
    /\ Decoded(t, MaxPages) = Err(TransportError)
    /\ outcome[t] = Err(TransportError)
    /\ results[t] # <<>>

\* C8: aql_next_batch answered by a failure envelope returns a ServerError that
\* carries the envelope's code and errorNum (InvalidCursor for a 404), for
\* either result type, never a SchemaMismatch or a TransportError, and it has
\* issued its one PUT only.
C8_AdvanceFailure ==
  \A t \in Tasks :
    (/\ kind[t] = "aql_next_batch"
     /\ Len(log[t]) >= 1
     /\ IsFailureEnvelope(log[t][1]))
      => /\ pc[t] = "ret"
         /\ outcome[t] = Err(ServerError(log[t][1].text.code, log[t][1].text.errorNum))
         /\ outcome[t].err.kind \notin {"SchemaMismatch", "TransportError", "MalformedResponse"}
         /\ log[t][1].text.code = 404 => IsInvalidCursor(outcome[t].err)
         /\ Len(log[t]) = 1
         /\ Len(sent[t]) = 1
         /\ InFlight(t) = 0

C8_Witness ==
  \E t \in Tasks :
    /\ Returned(t, "aql_next_batch")
    /\ ty[t] = "i32"
    /\ sent[t] = <<PutRequest(db, StaleId)>>
    /\ IsFailureEnvelope(log[t][1])
    /\ log[t][1].text.code = 404
    /\ log[t][1].text.errorNum = 1600
    /\ IsInvalidCursor(outcome[t].err)

Range(f) == {f[i] : i \in DOMAIN f}

\* the items and the continuation ids the server delivered to task t's call
ReceivedItems(t) ==
  UNION {Range(log[t][k].text.result) :
           k \in {j \in 1..Len(log[t]) : IsSuccessEnvelope(log[t][j])}}
ReceivedIds(t) ==
  {log[t][k].text.id : k \in {j \in 1..Len(log[t]) : IsSuccessEnvelope(log[t][j])}} \ {NoId}

\* C9: with runs interleaved on the shared context, an aql_query redeems only
\* ids it received itself, and what it returns are items of its own pages and
\* of no other task's.
C9_Isolation ==
  \A t \in Tasks :
    kind[t] = "aql_query" =>
      /\ \A k \in 2..Len(sent[t]) :
           /\ sent[t][k].method = "PUT"
           /\ IsCursorPath(sent[t][k].url)
           /\ RequestedId(sent[t][k].url) \in ReceivedIds(t)
      /\ Range(results[t]) \cap UNION {ReceivedItems(u) : u \in Tasks \ {t}} = {}
      /\ pc[t] = "ret" /\ outcome[t].tag = "Ok" =>
           /\ Range(outcome[t].val) \subseteq ReceivedItems(t)
           /\ \A u \in Tasks \ {t} : Range(outcome[t].val) \cap ReceivedItems(u) = {}

C9_Witness ==
  /\ \A t \in Tasks : kind[t] = "aql_query" /\ pc[t] = "fetch" /\ results[t] # <<>>
  /\ \E t \in Tasks : Len(sent[t]) = MaxPages

RECURSIVE RunToCompletion(_, _, _, _)
\* what aql_query returns for the responses l[k..], as a function of them alone
RunToCompletion(R, l, k, acc) ==
  LET c == BatchResult(R, l[k]) IN
  IF c.tag = "Err" THEN c
  ELSE IF ~c.val.more THEN (IF k = 1 THEN Ok(c.val.result) ELSE Ok(acc))
  ELSE IF c.val.id = NoId THEN Panic
  ELSE IF k = Len(l) THEN NoOutcome
  ELSE RunToCompletion(R, l, k + 1, acc \o c.val.result)

ExpectedOutcome(op, R, l) ==
  IF op = "aql_query" THEN RunToCompletion(R, l, 1, <<>>) ELSE BatchResult(R, l[1])

\* C10: the Database context is never written, and what a call returns is a
\* function of its operation, its result type and the responses it observed:
\* nothing of an earlier call enters it.
C10_Stateless ==
  /\ db = DatabaseNew("test_db")
  /\ \A t \in Tasks :
       pc[t] = "ret" => outcome[t] = ExpectedOutcome(kind[t], ty[t], log[t])

C10_Witness ==
  /\ ncalls = MaxCalls
  /\ \E t \in Tasks :
       /\ \A u \in Tasks \ {t} : pc[u] = "idle"
       /\ Returned(t, "aql_query")
       /\ Len(log[t]) >= 2
       /\ outcome[t].tag = "Ok"
       /\ outcome[t].val # <<>>
       /\ \A i \in 1..Len(outcome[t].val) : outcome[t].val[i].rs = MaxCalls

\* C11: an aql_query issues its POST whatever happens; every later request is
\* a PUT issued after a page with has_more, and it redeems the id of that
\* page, the one received just before it.
C11_GatedOnPreviousPage ==
  \A t \in Tasks :
    kind[t] = "aql_query" =>
      /\ Len(sent[t]) >= 1
      /\ sent[t][1].method = "POST"
      /\ \A k \in 2..Len(sent[t]) :
           /\ Decoded(t, k - 1).tag = "Ok"
           /\ Decoded(t, k - 1).val.more
           /\ sent[t][k].method = "PUT"
           /\ IsCursorPath(sent[t][k].url)
           /\ RequestedId(sent[t][k].url) = log[t][k - 1].text.id

C11_Witness ==
  \E t \in Tasks :
    /\ kind[t] = "aql_query"
    /\ pc[t] = "fetch"
    /\ Len(sent[t]) = MaxPages
    /\ log[t][1].text.id # log[t][MaxPages - 1].text.id
    /\ RequestedId(sent[t][MaxPages].url) = log[t][MaxPages - 1].text.id

\* C12: at every step of an aql_query that went into aql_fetch_all, the
\* accumulator is the items of the pages received so far: every received page
\* appended once, after the earlier ones, in the order the server sent them.
C12_AccumulatorOrder ==
  \A t \in Tasks :
    (/\ kind[t] = "aql_query"
     /\ Len(log[t]) >= 1
     /\ \A k \in 1..Len(log[t]) : Decoded(t, k).tag = "Ok"
     /\ Decoded(t, 1).val.more)
      => results[t] = ConcatPages(log[t], Len(log[t]))

\* C13: aql_query_batch issues one POST to <base>_api/cursor with the
\* serialized query as its body, aql_next_batch one PUT with an empty body to
\* <base>_api/cursor/<cursor_id>, and neither issues anything else.
C13_OneRequest ==
  \A t \in Tasks :
    /\ kind[t] = "aql_query_batch" =>
         /\ sent[t] = <<[method |-> "POST",
                         url |-> [host |-> ConnUrl.host,
                                  path |-> <<"_db", db.name, "_api", "cursor">>],
                         body |-> [query |-> arg[t].query, bindVars |-> arg[t].bind_vars]]>>
         /\ \A m \in net : m.from = t => m.req = sent[t][1]
    /\ kind[t] = "aql_next_batch" =>
         /\ sent[t] = <<[method |-> "PUT",
                         url |-> [host |-> ConnUrl.host,
                                  path |-> <<"_db", db.name, "_api", "cursor", arg[t]>>],
                         body |-> ""]>>
         /\ \A m \in net : m.from = t => m.req = sent[t][1]
    /\ kind[t] \in {"aql_query_batch", "aql_next_batch"} => InFlight(t) <= 1

C13_Witness ==
  \E t \in Tasks :
    /\ Returned(t, "aql_next_batch")
    /\ arg[t] = CursorIdNames[1]
    /\ outcome[t].tag = "Ok"
    /\ Len(outcome[t].val.result) = MaxPageLen

\* every response of task t's call so far is a page with has_more and an id
AllMore(t) ==
  \A k \in 1..Len(log[t]) : Decoded(t, k).tag = "Ok" /\ Decoded(t, k).val.more

\* C14: when every request is answered and the server ends the chain with an
\* error or a page without has_more, an aql_query returns; it returns at the
\* first such response and not before: as long as every page has has_more and
\* an id it goes on requesting, whatever the number of pages.
C14_Terminates ==
  /\ \A t \in Tasks :
       (kind[t] = "aql_query" /\ pc[t] \in {"submit", "fetch"}) ~> (pc[t] = "ret")
  /\ [](\A t \in Tasks :
          kind[t] = "aql_query" =>
            /\ AllMore(t) => (pc[t] \in {"submit", "fetch"} /\ InFlight(t) = 1)
            /\ ~AllMore(t) => (pc[t] = "ret" /\ InFlight(t) = 0))

C14_Witness ==
  \E t \in Tasks :
    /\ Returned(t, "aql_query")
    /\ Len(log[t]) = MaxPages
    /\ outcome[t].tag = "Ok"
    /\ \A k \in 1..(MaxPages - 1) : Decoded(t, k).val.more

\* ------------------------------------------------------------ aql_str, aql_bind_vars
\* AqlQuery::new(query): the query text and no bind variable
AqlQueryNew(query) == [query |-> query, bind_vars |-> <<>>]

\* AqlQuery::bind_var(key, value): the binding is put into the map
bind_var(aql, key, value) ==
  [query |-> aql.query,
   bind_vars |-> [k \in DOMAIN aql.bind_vars \cup {key} |->
                    IF k = key THEN value ELSE aql.bind_vars[k]]]

RECURSIVE BindAll(_, _, _)
\* `for (key, value) in bind_vars { aql = aql.bind_var(key, value); }`, the
\* map iterated in the order `order`
BindAll(aql, bind_vars, order) ==
  IF order = <<>> THEN aql
  ELSE BindAll(bind_var(aql, Head(order), bind_vars[Head(order)]), bind_vars, Tail(order))

\* a loop that builds on a new AqlQuery at every binding
AqlBindVarsQueryRestart(query, bind_vars, order) ==
  IF order = <<>> THEN AqlQueryNew(query)
  ELSE bind_var(AqlQueryNew(query), order[Len(order)], bind_vars[order[Len(order)]])

\* the AqlQuery aql_bind_vars hands to aql_query
AqlBindVarsQuery(query, bind_vars, order) == BindAll(AqlQueryNew(query), bind_vars, order)

\* the bind variables a caller passes, and the orders a HashMap may iterate in
BindNames == {"a", "b"}
BindValue == [a |-> 1, b |-> 2]
BindVarMaps == {[k \in K |-> BindValue[k]] : K \in SUBSET BindNames}
IterationOrders(K) ==
  {o \in [1..Cardinality(K) -> K] : {o[i] : i \in 1..Cardinality(K)} = K}

\* aql_str up to the await of aql_query_batch
aql_str(t) ==
  \E R \in ResultTypes, aql \in Queries :
    /\ Start(t, "aql_str", R, PostRequest(db, AqlQueryNew(aql.query)), "submit")
    /\ arg' = [arg EXCEPT ![t] = [query |-> aql.query, bind_vars |-> <<>>, order |-> <<>>]]

\* aql_bind_vars up to the await of aql_query_batch
aql_bind_vars(t) ==
  \E R \in ResultTypes, aql \in Queries, bind_vars \in BindVarMaps :
    \E order \in IterationOrders(DOMAIN bind_vars) :
      /\ Start(t, "aql_bind_vars", R,
               PostRequest(db, AqlBindVarsQuery(aql.query, bind_vars, order)), "submit")
      /\ arg' = [arg EXCEPT ![t] =
                   [query |-> aql.query, bind_vars |-> bind_vars, order |-> order]]

\* the calls of aql_str and aql_bind_vars, made one after the other by the
\* first task
NextWrap ==
  \/ \E t \in {1} : aql_str(t)
  \/ \E t \in {1} : aql_bind_vars(t)
  \/ \E t \in Tasks : aql_query_submitted(t)
  \/ \E t \in Tasks : aql_fetch_all_next(t)
  \/ TransportFails
  \/ ServerGarbage
  \/ ServerFailure
  \/ ServerFirstPage
  \/ ServerNextPage

SpecWrap == Init /\ [][NextWrap]_vars

\* C15: aql_str(q) and aql_bind_vars(q, vars) issue the requests of aql_query
\* on the query with text q and no binding, resp. exactly the bindings of vars
\* whatever the order the map is iterated in, and return what aql_query
\* returns for the same responses.
C15_SameAsAqlQuery ==
  \A t \in Tasks :
    kind[t] \in {"aql_str", "aql_bind_vars"} =>
      /\ Len(sent[t]) >= 1
      /\ sent[t][1] = [method |-> "POST", url |-> CursorUrl(db),
                       body |-> [query |-> arg[t].query, bindVars |-> arg[t].bind_vars]]
      /\ kind[t] = "aql_str" => DOMAIN sent[t][1].body.bindVars = {}
      /\ \A k \in 2..Len(sent[t]) :
           /\ Decoded(t, k - 1).tag = "Ok"
           /\ Decoded(t, k - 1).val.more
           /\ sent[t][k] = PutRequest(db, log[t][k - 1].text.id)
      /\ Len(sent[t]) - Len(log[t]) = InFlight(t)
      /\ pc[t] = "ret" <=>
           (Len(log[t]) >= 1 /\ ExpectedOutcome("aql_query", ty[t], log[t]) # NoOutcome)
      /\ pc[t] = "ret" => outcome[t] = ExpectedOutcome("aql_query", ty[t], log[t])

C15_Witness ==
  \E t \in Tasks :
    /\ Returned(t, "aql_bind_vars")
    /\ arg[t].order = <<"b", "a">>
    /\ sent[t][1].body.bindVars = [a |-> 1, b |-> 2]
    /\ Len(log[t]) = MaxPages
    /\ outcome[t].tag = "Ok"
    /\ outcome[t].val # <<>>


\* ------------------------------------------------------------ collections
MaxColls == 2
CollNames == {"users", "posts"}

CollectionUrl(d) == UrlJoin(d.base_url, <<"_api", "collection">>)
\* session.get(url, "")
ListRequest(d) == [method |-> "GET", url |-> CollectionUrl(d), body |-> ""]
\* session.post(url, to_string({"name": name}))
CreateRequest(d, name) == [method |-> "POST", url |-> CollectionUrl(d), body |-> [name |-> name]]

NotFound(name) == [kind |-> "CollectionNotFound", name |-> name]
CreateFailed == [kind |-> "FailToCreateCollection"]

\* Bodies on the wire:
\*   [json |-> TRUE, error |-> FALSE, result |-> <<[name, id], ..>>]   a listing
\*   [json |-> TRUE, error |-> FALSE, name, id]                     a creation
\* serialize_response: the listing, or an error when there is none to decode
serialize_response(text) ==
  IF ~text.json THEN Err(MalformedResponse)
  ELSE IF text.error THEN Err(ServerError(text.code, text.errorNum))
  ELSE Ok(text.result)

\* serialize::<CollectionDetails>: the details carry the error flag
serialize(text) ==
  IF ~text.json THEN Err(MalformedResponse)
  ELSE Ok([error |-> text.error])

\* Collection::from_response
CollectionFromResponse(d, collection) ==
  [id |-> collection.id, name |-> collection.name, database |-> d.name]

\* accessible_collections, from the response to its GET
AccessibleCollections(resp) ==
  IF ~resp.delivered THEN Err(TransportError)
  ELSE serialize_response(resp.text)

RECURSIVE CollectionLoopLast(_, _)
\* a loop that keeps the last entry of the name
CollectionLoopLast(collections, name) ==
  IF collections = <<>> THEN Err(NotFound(name))
  ELSE IF collections[Len(collections)].name = name
       THEN Ok(CollectionFromResponse(db, collections[Len(collections)]))
       ELSE CollectionLoopLast(SubSeq(collections, 1, Len(collections) - 1), name)

RECURSIVE CollectionLoop(_, _)
\* `for collection in &collections { if collection.name.eq(name) { return .. } }`
CollectionLoop(collections, name) ==
  IF collections = <<>> THEN Err(NotFound(name))
  ELSE IF Head(collections).name = name
       THEN Ok(CollectionFromResponse(db, Head(collections)))
       ELSE CollectionLoop(Tail(collections), name)

\* a create_collection that does not look at result.error
CreateBranchAlwaysLists(result) == [step |-> "list"]

\* `match result.error`
CreateBranch(result) ==
  IF result.error THEN [step |-> "return", outcome |-> Err(CreateFailed)]
  ELSE [step |-> "list"]

\* the task takes the step `s` computed from the response it received
ContinueColl(t, m, s) ==
  /\ inbox' = inbox \ {m}
  /\ log' = [log EXCEPT ![t] = Append(@, m.resp)]
  /\ IF s.step = "list"
     THEN /\ pc' = [pc EXCEPT ![t] = "list"]
          /\ sent' = [sent EXCEPT ![t] = Append(@, ListRequest(db))]
          /\ net' = net \cup Transmit(t, Len(sent[t]) + 1, ListRequest(db))
          /\ UNCHANGED outcome
     ELSE /\ pc' = [pc EXCEPT ![t] = "ret"]
          /\ outcome' = [outcome EXCEPT ![t] = s.outcome]
          /\ UNCHANGED <<sent, net>>
  /\ UNCHANGED <<db, kind, ty, results, ncalls, arg, colls, serverVars>>

\* collection up to the await of accessible_collections
collection(t) ==
  \E name \in CollNames :
    /\ Start(t, "collection", "Value", ListRequest(db), "list")
    /\ arg' = [arg EXCEPT ![t] = name]

\* collection from the response of accessible_collections on
collection_listed(t) ==
  /\ pc[t] = "list"
  /\ \E m \in Awaited(t) :
       LET collections == AccessibleCollections(m.resp) IN
         ContinueColl(t, m,
           IF collections.tag = "Err"
           THEN [step |-> "return", outcome |-> collections]
           ELSE [step |-> "return", outcome |-> CollectionLoop(collections.val, arg[t])])

\* create_collection up to the await of the POST
create_collection(t) ==
  \E name \in CollNames :
    /\ Start(t, "create_collection", "Value", CreateRequest(db, name), "create")
    /\ arg' = [arg EXCEPT ![t] = name]

\* create_collection from the response to the POST up to the await inside
\* self.collection(name)
create_collection_created(t) ==
  /\ pc[t] = "create"
  /\ \E m \in Awaited(t) :
       LET result == IF ~m.resp.delivered THEN Err(TransportError)
                     ELSE serialize(m.resp.text) IN
         ContinueColl(t, m,
           IF result.tag = "Err"
           THEN [step |-> "return", outcome |-> result]
           ELSE CreateBranch(result.val))

\* the server lists its collections
ServerLists ==
  \E m \in net :
    /\ m.req.method = "GET"
    /\ Respond(m, Delivered([json |-> TRUE, error |-> FALSE, result |-> colls.list]))
    /\ UNCHANGED serverVars

\* the server refuses the listing
ServerListingDenied ==
  \E m \in net :
    /\ m.req.method = "GET"
    /\ Respond(m, Delivered([json |-> TRUE, error |-> TRUE, code |-> 401, errorNum |-> 11]))
    /\ UNCHANGED serverVars

\* the server makes the collection and says so
ServerCreates ==
  \E m \in net :
    /\ m.req.method = "POST"
    /\ m.req.url = CollectionUrl(db)
    /\ colls.made < MaxColls
    /\ colls' = [list |-> Append(colls.list, [name |-> m.req.body.name, id |-> colls.made + 1]),
                 made |-> colls.made + 1]
    /\ net' = net \ {m}
    /\ inbox' = inbox \cup {[to |-> m.from, seq |-> m.seq, n |-> m.n,
                             resp |-> Delivered([json |-> TRUE, error |-> FALSE,
                                                 name |-> m.req.body.name,
                                                 id |-> colls.made + 1])]}
    /\ UNCHANGED <<db, pc, kind, ty, results, outcome, sent, log, ncalls, arg, serverVars>>

\* the server refuses to make the collection
ServerRejectsCreate ==
  \E m \in net :
    /\ m.req.method = "POST"
    /\ m.req.url = CollectionUrl(db)
    /\ Respond(m, Delivered([json |-> TRUE, error |-> TRUE, code |-> 409, errorNum |-> 1207]))
    /\ UNCHANGED serverVars

\* another client of the server has a collection made
OtherClientCreates ==
  /\ colls.made < MaxColls
  /\ \E name \in CollNames :
       colls' = [list |-> Append(colls.list, [name |-> name, id |-> colls.made + 1]),
                 made |-> colls.made + 1]
  /\ UNCHANGED <<db, pc, kind, ty, results, outcome, sent, log, net, inbox, ncalls, arg, serverVars>>

\* another client of the server drops a collection
OtherClientDrops ==
  /\ \E i \in 1..Len(colls.list) :
       colls' = [colls EXCEPT !.list = SubSeq(@, 1, i - 1) \o SubSeq(@, i + 1, Len(@))]
  /\ UNCHANGED <<db, pc, kind, ty, results, outcome, sent, log, net, inbox, ncalls, arg, serverVars>>

NextColl ==
  \/ \E t \in {1} : collection(t)
  \/ \E t \in {1} : create_collection(t)
  \/ \E t \in Tasks : create_collection_created(t)
  \/ \E t \in Tasks : collection_listed(t)
  \/ TransportFails
  \/ ServerGarbage
  \/ ServerLists
  \/ ServerListingDenied
  \/ ServerCreates
  \/ ServerRejectsCreate
  \/ OtherClientCreates
  \/ OtherClientDrops

SpecColl == Init /\ [][NextColl]_vars

\* the k-th response of task t's call is a listing the client can decode
Listed(t, k) ==
  /\ Len(log[t]) >= k
  /\ AccessibleCollections(log[t][k]).tag = "Ok"

\* where the listing that is the k-th response names `name`
Matches(t, k, name) ==
  {i \in 1..Len(log[t][k].text.result) : log[t][k].text.result[i].name = name}

FirstMatch(t, k, name) ==
  log[t][k].text.result[CHOOSE i \in Matches(t, k, name) :
                          \A j \in Matches(t, k, name) : i <= j]

\* the server accepted the creation: the response to the POST has error=false
Accepted(t) ==
  /\ Len(log[t]) >= 1
  /\ log[t][1].delivered
  /\ log[t][1].text.json
  /\ ~log[t][1].text.error

C17_FirstMatchOrError ==
  \A t \in Tasks :
    kind[t] = "collection" =>
      /\ sent[t] = <<ListRequest(db)>>
      /\ Len(sent[t]) - Len(log[t]) = InFlight(t)
      /\ pc[t] = "ret" <=> Len(log[t]) = 1
      /\ pc[t] # "ret" => pc[t] = "list"
      /\ pc[t] = "ret" =>
           /\ outcome[t].tag \in {"Ok", "Err"}
           /\ outcome[t].tag = "Ok" <=> (Listed(t, 1) /\ Matches(t, 1, arg[t]) # {})
           /\ outcome[t].tag = "Ok" =>
                outcome[t].val = CollectionFromResponse(db, FirstMatch(t, 1, arg[t]))
           /\ (Listed(t, 1) /\ Matches(t, 1, arg[t]) = {}) =>
                outcome[t] = Err(NotFound(arg[t]))
           /\ ~Listed(t, 1) => outcome[t] = AccessibleCollections(log[t][1])

\* the listing has two entries of the name and the call returned the first
\* of the two
C17_Witness ==
  \E t \in Tasks :
    /\ Returned(t, "collection")
    /\ Listed(t, 1)
    /\ Cardinality(Matches(t, 1, arg[t])) = 2
    /\ outcome[t].tag = "Ok"
    /\ outcome[t].val.id = FirstMatch(t, 1, arg[t]).id

====
